---- MODULE Spec2Model ----
\* Chunked, resumable LLM analysis pipeline:
\*   app/tasks/pii_tasks.py            (chunk planner, Celery tasks, sync fallback)
\*   app/api/routes/pii.py             (analysis start, resume)
\*   app/services/deep_analysis_service.py, app/api/routes/deep_analysis.py
\* A text is represented by its length (the planner and the tasks only use
\* len(text) and offsets into it); persisted numeric strings are represented by
\* the number they hold, NULL by the value NULL.
EXTENDS Integers, Sequences, FiniteSets, TLC

VARIABLES
    scenario,           \* which part of the program this behaviour is about
    plan_text_length,   \* planner: len(text) handed to create_chunks
    plan_model,         \* planner: model name handed to create_chunks
    plan_settings,      \* planner: what get_chunk_settings returns for the model
    plan_chunks,        \* planner: the list create_chunks returned
    plan_done,          \* planner: create_chunks has been applied
    celery_app,         \* app.core.celery_app.celery_app is not None
    masked_len,         \* len(job.masked_chat_text or "")
    analysis,           \* the PIIAnalysis row
    chunk_rows,         \* the PIIAnalysisChunk rows of the analysis, in insertion order
    queue,              \* Celery broker queue of task names
    pc,                 \* position of the code currently running for the analysis
    run,                \* locals of the current run plus its observation log
    observed,           \* observation log kept over the life of the analysis
    held_resume,        \* a resume_analysis request between its status check and its writes
    deep_lines,         \* deep analysis: line lengths of pii_job.masked_chat_text
    deep_job,           \* the DeepAnalysisJob row
    deep_rows,          \* the DeepAnalysisChunkResult rows, in insertion order
    deep_pc,            \* position inside DeepAnalysisService.process_job
    deep_run            \* locals of process_job plus its observation log

vars == <<scenario, plan_text_length, plan_model, plan_settings, plan_chunks, plan_done,
          celery_app, masked_len, analysis, chunk_rows, queue, pc, run, observed,
          held_resume, deep_lines, deep_job, deep_rows, deep_pc, deep_run>>

plan_vars == <<scenario, plan_text_length, plan_model, plan_settings, plan_chunks,
               plan_done>>
pii_vars  == <<celery_app, masked_len, analysis, chunk_rows, queue, pc, run, observed,
               held_resume>>
deep_vars == <<deep_lines, deep_job, deep_rows, deep_pc, deep_run>>

\* NULL in a numeric column, NONE in a text column or a None local
NULL == -1
NONE == "NULL"

Min(a, b) == IF a <= b THEN a ELSE b

\* ---------------------------------------------------------------------------
\* Bounds
\* ---------------------------------------------------------------------------
\* planner inputs: lengths 1000*k-1, 1000*k, 1000*k+1 for k in 0..MaxKilo
MaxKilo == 170
\* a started analysis plans at most this many chunk rows
MaxPlanned == 3
\* the while loop of create_chunks is followed for at most this many passes
MaxPasses == 8

\* ---------------------------------------------------------------------------
\* Program constants
\* ---------------------------------------------------------------------------
MAX_RETRIES == 3
RATE_LIMIT_BASE_DELAY == 35
DEFAULT_CHUNK_SIZE == 60000
DEFAULT_CHUNK_OVERLAP == 10000
CHUNK_SIZE == 60000
CHUNK_SIZE_CHARS == 25000

MODEL_CHUNK_SIZES ==
    [m \in {"gpt-3.5-turbo", "gpt-4-turbo", "gpt-4o", "gpt-4o-mini",
            "claude-3-opus", "claude-3-sonnet", "claude-3-haiku"} |->
        CASE m = "gpt-3.5-turbo"   -> [size |-> 12000, overlap |-> 2000]
          [] m = "gpt-4-turbo"     -> [size |-> 60000, overlap |-> 10000]
          [] m = "gpt-4o"          -> [size |-> 60000, overlap |-> 10000]
          [] m = "gpt-4o-mini"     -> [size |-> 60000, overlap |-> 10000]
          [] m = "claude-3-opus"   -> [size |-> 80000, overlap |-> 15000]
          [] m = "claude-3-sonnet" -> [size |-> 80000, overlap |-> 15000]
          [] m = "claude-3-haiku"  -> [size |-> 40000, overlap |-> 8000]]

\* every table entry plus one name that is not in the table
ModelNames == DOMAIN MODEL_CHUNK_SIZES \cup {"unlisted-model"}

\* ---------------------------------------------------------------------------
\* Chunk planner (pii_tasks.py)
\* ---------------------------------------------------------------------------
get_chunk_settings(model) ==
    IF model \in DOMAIN MODEL_CHUNK_SIZES
    THEN MODEL_CHUNK_SIZES[model]
    ELSE [size |-> DEFAULT_CHUNK_SIZE, overlap |-> DEFAULT_CHUNK_OVERLAP]

chunk_end_unclamped(start, chunk_size, text_length) == start + chunk_size

\* end = min(start + chunk_size, text_length)
chunk_end(start, chunk_size, text_length) == Min(start + chunk_size, text_length)

next_start_no_overlap(start, chunk_size, chunk_overlap) == start + chunk_size

\* start = start + chunk_size - chunk_overlap
next_start(start, chunk_size, chunk_overlap) == start + chunk_size - chunk_overlap

\* the while loop of create_chunks
RECURSIVE chunk_loop(_, _, _, _, _, _)
chunk_loop(start, chunk_index, text_length, chunk_size, chunk_overlap, chunks) ==
    IF ~(start < text_length) THEN chunks
    ELSE LET end == chunk_end(start, chunk_size, text_length)
             appended == Append(chunks, [index |-> chunk_index, start |-> start, end |-> end])
         IN  IF end >= text_length THEN appended
             ELSE chunk_loop(next_start(start, chunk_size, chunk_overlap), chunk_index + 1,
                             text_length, chunk_size, chunk_overlap, appended)

\* the early return for text_length <= chunk_size
single_chunk(text_length) == << [index |-> 0, start |-> 0, end |-> text_length] >>

create_chunks(text_length, model) ==
    LET settings == get_chunk_settings(model)
        chunk_size == settings.size
        chunk_overlap == settings.overlap
    IN  IF text_length <= chunk_size
        THEN single_chunk(text_length)
        ELSE chunk_loop(0, 0, text_length, chunk_size, chunk_overlap, << >>)

\* ---------------------------------------------------------------------------
\* LLM provider errors and their classification (pii_tasks.py)
\* ---------------------------------------------------------------------------
\* str(e) of the exceptions llm_service.analyze raises in the model; "None" is
\* str(last_error) when no call was made
ErrorMessages ==
    {"Request timed out",
     "Error code: 429 - Please try again in 20.5s",
     "rate_limit_exceeded"}

\* "429" in str(error_message)
Contains429(error_message) ==
    error_message = "Error code: 429 - Please try again in 20.5s"

\* "rate_limit" in str(error_message).lower()
ContainsRateLimit(error_message) == error_message = "rate_limit_exceeded"

\* re.search(r'try again in (\d+(?:\.\d+)?)\s*s'): the matched number in tenths
\* of a second, NULL when there is no match
TryAgainTenths(error_message) ==
    IF error_message = "Error code: 429 - Please try again in 20.5s" THEN 205 ELSE NULL

extract_rate_limit_info(error_message) ==
    IF Contains429(error_message) \/ ContainsRateLimit(error_message)
    THEN [is_rate_limit |-> TRUE,
          wait_seconds |-> IF TryAgainTenths(error_message) # NULL
                           THEN (TryAgainTenths(error_message) \div 10) + 5
                           ELSE RATE_LIMIT_BASE_DELAY]
    ELSE [is_rate_limit |-> FALSE, wait_seconds |-> RATE_LIMIT_BASE_DELAY]

\* ---------------------------------------------------------------------------
\* PII analysis: rows
\* ---------------------------------------------------------------------------
NoAnalysis ==
    [status |-> "absent", llm_model |-> NONE, is_chunked |-> FALSE,
     total_chunks |-> NULL, completed_chunks |-> 0, failed_chunks |-> 0,
     is_paused |-> FALSE, pause_reason |-> NONE, rate_limit_wait_until |-> NULL,
     llm_response |-> NONE, consolidated_response |-> NONE]

\* PIIAnalysis(...) as the start route builds it
NewAnalysis(llm_model, is_chunked) ==
    [NoAnalysis EXCEPT !.status = "processing", !.llm_model = llm_model,
                       !.is_chunked = is_chunked]

\* PIIAnalysisChunk(...) as the tasks build it
NewChunkRow(chunk_data, total_chunks) ==
    [chunk_index |-> chunk_data.index, total_chunks |-> total_chunks,
     start_char |-> chunk_data.start, end_char |-> chunk_data.end,
     status |-> "pending", retry_count |-> 0, max_retries |-> MAX_RETRIES,
     error_message |-> NONE, error_code |-> NONE, llm_response |-> NONE]

NewChunkRows(chunks) == [i \in 1..Len(chunks) |-> NewChunkRow(chunks[i], Len(chunks))]

\* .order_by(cast(chunk_index, Integer)) over the row positions in S
RECURSIVE OrderByChunkIndex(_, _)
OrderByChunkIndex(rows, S) ==
    IF S = {} THEN << >>
    ELSE LET first == CHOOSE p \in S : \A q \in S :
                          \/ rows[p].chunk_index < rows[q].chunk_index
                          \/ rows[p].chunk_index = rows[q].chunk_index /\ p <= q
         IN  << first >> \o OrderByChunkIndex(rows, S \ {first})

ClaimableStatusesWithCompleted == {"pending", "processing", "failed", "completed"}

\* status.in_(["pending", "processing", "failed"])
ClaimableStatuses == {"pending", "processing", "failed"}

ClaimableRecords(rows) ==
    OrderByChunkIndex(rows, {p \in DOMAIN rows : rows[p].status \in ClaimableStatuses})

CompletedRecords(rows) ==
    OrderByChunkIndex(rows, {p \in DOMAIN rows : rows[p].status = "completed"})

\* the observation log of a new analysis.  rows_at_failure holds the chunk rows
\* as the failed consolidation call left them, until consolidation is entered
\* again or a run that ended paused or partial is resumed
\* resume tells how the last accepted resume request was made: "kept_failed" or
\* "reset_failed", by its reset_failed_chunks.  rejected holds from a resume
\* request answered with HTTP 400 until a task of the analysis starts
\* calls counts, for every chunk row, the llm_service.analyze calls made for it
\* since the row was created or last reset to pending
NothingObserved ==
    [llm_failed |-> FALSE, consolidation |-> "none", rows_at_failure |-> << >>,
     resume |-> "none", rejected |-> FALSE, calls |-> << >>]

\* the call counts once the chunk rows are `rows`: new rows start at 0
calls_for(calls, rows) ==
    [p \in DOMAIN rows |-> IF p \in DOMAIN calls THEN calls[p] ELSE 0]

may_retry_once_more(retry_count, max_retries) == retry_count <= max_retries

\* while retry_count < max_retries (and not success)
may_retry(retry_count, max_retries) == retry_count < max_retries

NoRun ==
    [kind |-> "none", model |-> NONE, total_chunks |-> 0, chunk_records |-> << >>,
     pos |-> 0, retry_count |-> 0, max_retries |-> 0, last_error |-> NONE,
     snapshot |-> << >>, claimed |-> << >>, called |-> {}, generic_failed |-> {},
     rate_limited |-> {}, result |-> "none"]

NewRun(kind, model, total_chunks, rows, records) ==
    [NoRun EXCEPT !.kind = kind, !.model = model, !.total_chunks = total_chunks,
                  !.chunk_records = records, !.snapshot = rows, !.result = "running"]

\* the row the loop is working on
Current == run.chunk_records[run.pos]

\* ---------------------------------------------------------------------------
\* Bounded inputs of the PII analysis
\* ---------------------------------------------------------------------------
PIITextLengths == {0, 40000, 70000, 150000}
PIIModels == {"gpt-3.5-turbo", "gpt-4-turbo", "claude-3-opus"}

\* ---------------------------------------------------------------------------
\* routes/pii.py: analyze_with_llm_execute
\* ---------------------------------------------------------------------------
RequestedModel(llm_model) == IF llm_model = NONE THEN "gpt-4-turbo" ELSE llm_model

\* needs_chunking and the broker accepts process_pii_analysis_chunked.delay
StartChunkedAsync ==
    /\ scenario \in {"pii", "fault", "race"}
    /\ analysis.status = "absent"
    /\ masked_len > CHUNK_SIZE
    /\ celery_app
    /\ \E llm_model \in PIIModels \cup {NONE} :
          /\ Len(create_chunks(masked_len, RequestedModel(llm_model))) <= MaxPlanned
          /\ analysis' = NewAnalysis(RequestedModel(llm_model), TRUE)
    /\ queue' = Append(queue, "process_pii_analysis_chunked")
    /\ UNCHANGED <<celery_app, masked_len, chunk_rows, pc, run, observed>>
    /\ UNCHANGED <<scenario, held_resume>>
    /\ UNCHANGED plan_vars
    /\ UNCHANGED deep_vars

\* needs_chunking and either celery_app is None or .delay raised: the request
\* handler runs process_pii_analysis_sync itself
StartChunkedSync ==
    /\ scenario = "pii"
    /\ analysis.status = "absent"
    /\ masked_len > CHUNK_SIZE
    /\ pc = "idle"
    /\ Len(create_chunks(masked_len, "gpt-4-turbo")) <= MaxPlanned
    /\ \E llm_model \in PIIModels \cup {NONE} :
          analysis' = NewAnalysis(RequestedModel(llm_model), TRUE)
    /\ pc' = "sync_begin"
    /\ UNCHANGED <<celery_app, masked_len, chunk_rows, queue, run, observed>>
    /\ UNCHANGED <<scenario, held_resume>>
    /\ UNCHANGED plan_vars
    /\ UNCHANGED deep_vars

\* not needs_chunking: one direct LLM call on the whole text
StartDirect ==
    /\ scenario = "pii"
    /\ analysis.status = "absent"
    /\ ~(masked_len > CHUNK_SIZE)
    /\ pc = "idle"
    /\ \E llm_model \in PIIModels \cup {NONE} :
          analysis' = NewAnalysis(RequestedModel(llm_model), FALSE)
    /\ pc' = "direct_call"
    /\ UNCHANGED <<celery_app, masked_len, chunk_rows, queue, run, observed>>
    /\ UNCHANGED <<scenario, held_resume>>
    /\ UNCHANGED plan_vars
    /\ UNCHANGED deep_vars

DirectCall ==
    /\ pc = "direct_call"
    /\ \/ /\ analysis' = [analysis EXCEPT !.llm_response = "response", !.status = "completed"]
          /\ UNCHANGED observed
       \/ /\ analysis' = [analysis EXCEPT !.llm_response = "timeout", !.status = "timeout"]
          /\ observed' = [observed EXCEPT !.llm_failed = TRUE]
       \/ /\ analysis' = [analysis EXCEPT !.llm_response = "error", !.status = "failed"]
          /\ observed' = [observed EXCEPT !.llm_failed = TRUE]
    /\ pc' = "idle"
    /\ UNCHANGED <<celery_app, masked_len, chunk_rows, queue, run>>
    /\ UNCHANGED <<scenario, held_resume>>
    /\ UNCHANGED plan_vars
    /\ UNCHANGED deep_vars

\* ---------------------------------------------------------------------------
\* pii_tasks.py: process_pii_analysis_chunked
\* ---------------------------------------------------------------------------
\* the counters and flags the task writes before it looks at the chunk rows
reset_counters(a, total_chunks) ==
    [a EXCEPT !.is_chunked = TRUE, !.total_chunks = total_chunks,
              !.completed_chunks = 0, !.failed_chunks = 0,
              !.status = "processing", !.is_paused = FALSE, !.pause_reason = NONE]

\* if existing_chunks == 0: bulk-create the rows
rows_after_planning(rows, chunks) ==
    IF Len(rows) = 0 THEN NewChunkRows(chunks) ELSE rows

\* the worker takes the task off the queue; from the task's entry to the query
\* of the claimable chunk records
ChunkedBegin ==
    /\ pc = "idle"
    /\ queue # << >>
    /\ Head(queue) = "process_pii_analysis_chunked"
    /\ LET model == RequestedModel(analysis.llm_model)
           chunks == create_chunks(masked_len, model)
           rows == rows_after_planning(chunk_rows, chunks)
       IN  /\ analysis' = reset_counters(analysis, Len(chunks))
           /\ chunk_rows' = rows
           /\ run' = NewRun("chunked", model, Len(chunks), rows, ClaimableRecords(rows))
    /\ queue' = Tail(queue)
    /\ pc' = "chunked_loop"
    /\ observed' = [observed EXCEPT
            !.rejected = FALSE,
            !.calls = calls_for(@, rows_after_planning(chunk_rows,
                          create_chunks(masked_len, RequestedModel(analysis.llm_model))))]
    /\ UNCHANGED <<celery_app, masked_len>>
    /\ UNCHANGED <<scenario, held_resume>>
    /\ UNCHANGED plan_vars
    /\ UNCHANGED deep_vars

\* next iteration of "for chunk_record in chunk_records": up to the retry loop
ChunkedClaim ==
    /\ pc = "chunked_loop"
    /\ run.pos < Len(run.chunk_records)
    /\ LET p == run.chunk_records[run.pos + 1]
       IN  /\ chunk_rows' = [chunk_rows EXCEPT ![p].status = "processing"]
           /\ run' = [run EXCEPT !.pos = run.pos + 1,
                                 !.retry_count = chunk_rows[p].retry_count,
                                 !.max_retries = chunk_rows[p].max_retries,
                                 !.last_error = NONE,
                                 !.claimed = Append(run.claimed, p)]
    /\ pc' = "chunked_retry"
    /\ UNCHANGED <<celery_app, masked_len, analysis, queue, observed>>
    /\ UNCHANGED <<scenario, held_resume>>
    /\ UNCHANGED plan_vars
    /\ UNCHANGED deep_vars

\* one pass of the retry loop whose llm_service.analyze call returns
ChunkedAttemptOk ==
    /\ pc = "chunked_retry"
    /\ may_retry(run.retry_count, run.max_retries)
    /\ chunk_rows' = [chunk_rows EXCEPT ![Current].llm_response = "response",
                                        ![Current].status = "completed",
                                        ![Current].retry_count = run.retry_count,
                                        ![Current].error_message = NONE,
                                        ![Current].error_code = NONE]
    /\ analysis' = [analysis EXCEPT !.completed_chunks = analysis.completed_chunks + 1]
    /\ run' = [run EXCEPT !.called = run.called \cup {Current}]
    /\ pc' = "chunked_loop"
    /\ observed' = [observed EXCEPT !.calls[Current] = @ + 1]
    /\ UNCHANGED <<celery_app, masked_len, queue>>
    /\ UNCHANGED <<scenario, held_resume>>
    /\ UNCHANGED plan_vars
    /\ UNCHANGED deep_vars

\* one pass of the retry loop whose llm_service.analyze call raises
ChunkedAttemptError ==
    /\ pc = "chunked_retry"
    /\ may_retry(run.retry_count, run.max_retries)
    /\ \E error_str \in ErrorMessages :
        LET rate_info == extract_rate_limit_info(error_str)
        IN  /\ run' = [run EXCEPT !.retry_count = run.retry_count + 1,
                                  !.last_error = error_str,
                                  !.called = run.called \cup {Current}]
            /\ IF rate_info.is_rate_limit
               THEN /\ chunk_rows' = [chunk_rows EXCEPT
                            ![Current].retry_count = run.retry_count + 1,
                            ![Current].error_message = error_str,
                            ![Current].error_code = "RATE_LIMIT"]
                    /\ analysis' = [analysis EXCEPT
                            !.pause_reason = "rate_limit_wait",
                            !.rate_limit_wait_until = rate_info.wait_seconds]
                    /\ pc' = "chunked_sleep"
               ELSE /\ chunk_rows' = [chunk_rows EXCEPT
                            ![Current].retry_count = run.retry_count + 1,
                            ![Current].error_message = error_str,
                            ![Current].error_code = "UNKNOWN"]
                    /\ UNCHANGED analysis
                    /\ pc' = "chunked_retry"
    /\ observed' = [observed EXCEPT !.llm_failed = TRUE, !.calls[Current] = @ + 1]
    /\ UNCHANGED <<celery_app, masked_len, queue>>
    /\ UNCHANGED <<scenario, held_resume>>
    /\ UNCHANGED plan_vars
    /\ UNCHANGED deep_vars

\* after time.sleep(rate_info["wait_seconds"])
ChunkedWake ==
    /\ pc = "chunked_sleep"
    /\ analysis' = [analysis EXCEPT !.pause_reason = NONE, !.rate_limit_wait_until = NULL]
    /\ pc' = "chunked_retry"
    /\ UNCHANGED <<celery_app, masked_len, chunk_rows, queue, run, observed>>
    /\ UNCHANGED <<scenario, held_resume>>
    /\ UNCHANGED plan_vars
    /\ UNCHANGED deep_vars

stop_after_failure(last_error) == TRUE

continue_after_rate_limit(last_error) == FALSE

\* rate_info["is_rate_limit"] of the last error decides whether the run pauses
pause_after_failure(last_error) == extract_rate_limit_info(last_error).is_rate_limit

\* the retry loop ended without success: "if not success".  The observation
\* log notes how extract_rate_limit_info classifies the last error
ChunkedSettleFailed ==
    /\ pc = "chunked_retry"
    /\ ~may_retry(run.retry_count, run.max_retries)
    /\ LET error_message == IF run.last_error = NONE THEN "None" ELSE run.last_error
           noted == IF extract_rate_limit_info(error_message).is_rate_limit
                    THEN [run EXCEPT !.rate_limited = run.rate_limited \cup {Current}]
                    ELSE IF run.last_error = NONE THEN run
                    ELSE [run EXCEPT !.generic_failed = run.generic_failed \cup {Current}]
       IN  /\ chunk_rows' = [chunk_rows EXCEPT ![Current].status = "failed",
                                               ![Current].error_message = error_message]
           /\ IF pause_after_failure(error_message)
              THEN /\ analysis' = [analysis EXCEPT
                           !.failed_chunks = analysis.failed_chunks + 1,
                           !.is_paused = TRUE,
                           !.pause_reason = "paused_rate_limit",
                           !.status = "paused"]
                   /\ run' = [noted EXCEPT !.result = "paused"]
                   /\ pc' = "idle"
              ELSE /\ analysis' = [analysis EXCEPT
                           !.failed_chunks = analysis.failed_chunks + 1]
                   /\ run' = noted
                   /\ pc' = "chunked_loop"
    /\ UNCHANGED <<celery_app, masked_len, queue, observed>>
    /\ UNCHANGED <<scenario, held_resume>>
    /\ UNCHANGED plan_vars
    /\ UNCHANGED deep_vars

\* the for loop is exhausted: partial, or hand over to consolidation
ChunkedFinish ==
    /\ pc = "chunked_loop"
    /\ run.pos = Len(run.chunk_records)
    /\ IF analysis.failed_chunks > 0 /\ analysis.completed_chunks > 0
       THEN /\ analysis' = [analysis EXCEPT !.status = "partial",
                                            !.pause_reason = "chunks_failed"]
            /\ run' = [run EXCEPT !.result = "partial"]
            /\ UNCHANGED queue
       ELSE /\ queue' = Append(queue, "consolidate_pii_analysis")
            /\ run' = [run EXCEPT !.result = "chunks_completed"]
            /\ UNCHANGED analysis
    /\ pc' = "idle"
    /\ UNCHANGED <<celery_app, masked_len, chunk_rows, observed>>
    /\ UNCHANGED <<scenario, held_resume>>
    /\ UNCHANGED plan_vars
    /\ UNCHANGED deep_vars

\* an exception other than the LLM call's leaves the body of the task (a
\* db.commit() that raises, for one): the handler around the body marks the
\* analysis failed and re-raises.  pc stays at "raised": the tasks of the
\* analysis are not followed beyond the exception
ChunkedEscapes ==
    /\ scenario = "fault"
    /\ pc \in {"chunked_loop", "chunked_retry", "chunked_sleep"}
    /\ analysis' = [analysis EXCEPT !.status = "failed", !.llm_response = "error"]
    /\ run' = [run EXCEPT !.result = "raised"]
    /\ pc' = "raised"
    /\ UNCHANGED <<celery_app, masked_len, chunk_rows, queue, observed>>
    /\ UNCHANGED <<scenario, held_resume>>
    /\ UNCHANGED plan_vars
    /\ UNCHANGED deep_vars

\* ---------------------------------------------------------------------------
\* pii_tasks.py: consolidate_pii_analysis
\* ---------------------------------------------------------------------------
ConsolidateBegin ==
    /\ pc = "idle"
    /\ queue # << >>
    /\ Head(queue) = "consolidate_pii_analysis"
    /\ queue' = Tail(queue)
    /\ IF CompletedRecords(chunk_rows) = << >>
       THEN /\ analysis' = [analysis EXCEPT !.status = "failed",
                                            !.llm_response = "no_completed_chunks"]
            /\ run' = [NewRun("consolidate", RequestedModel(analysis.llm_model),
                              0, chunk_rows, << >>) EXCEPT !.result = "no_completed_chunks"]
            /\ pc' = "idle"
       ELSE /\ run' = NewRun("consolidate", RequestedModel(analysis.llm_model),
                             0, chunk_rows, CompletedRecords(chunk_rows))
            /\ pc' = "consolidate_call"
            /\ UNCHANGED analysis
    /\ observed' = [observed EXCEPT !.rows_at_failure = << >>, !.rejected = FALSE]
    /\ UNCHANGED <<celery_app, masked_len, chunk_rows>>
    /\ UNCHANGED <<scenario, held_resume>>
    /\ UNCHANGED plan_vars
    /\ UNCHANGED deep_vars

completed_without_response(a) == [a EXCEPT !.status = "completed"]

consolidation_succeeded(a) ==
    [a EXCEPT !.consolidated_response = "response", !.llm_response = "response",
              !.status = "completed"]

ConsolidateCall ==
    /\ pc = "consolidate_call"
    /\ \/ /\ analysis' = consolidation_succeeded(analysis)
          /\ run' = [run EXCEPT !.result = "completed"]
          /\ observed' = [observed EXCEPT !.consolidation = "succeeded"]
       \/ /\ analysis' = [analysis EXCEPT !.status = "failed", !.llm_response = "error"]
          /\ run' = [run EXCEPT !.result = "raised"]
          /\ observed' = [observed EXCEPT !.consolidation = "failed", !.llm_failed = TRUE,
                                         !.rows_at_failure = chunk_rows]
    /\ pc' = "idle"
    /\ UNCHANGED <<celery_app, masked_len, chunk_rows, queue>>
    /\ UNCHANGED <<scenario, held_resume>>
    /\ UNCHANGED plan_vars
    /\ UNCHANGED deep_vars

\* ---------------------------------------------------------------------------
\* pii_tasks.py: process_pii_analysis_sync (runs inside the request handler)
\* ---------------------------------------------------------------------------
\* from the entry to the query of all chunk records; chunks are planned with
\* create_chunks' default model and the rows are added unconditionally
SyncBegin ==
    /\ pc = "sync_begin"
    /\ LET chunks == create_chunks(masked_len, "gpt-4-turbo")
           rows == chunk_rows \o NewChunkRows(chunks)
       IN  /\ analysis' = [analysis EXCEPT !.is_chunked = TRUE,
                                           !.total_chunks = Len(chunks),
                                           !.completed_chunks = 0,
                                           !.status = "processing"]
           /\ chunk_rows' = rows
           /\ run' = NewRun("sync", RequestedModel(analysis.llm_model), Len(chunks), rows,
                            OrderByChunkIndex(rows, DOMAIN rows))
    /\ pc' = "sync_loop"
    /\ observed' = [observed EXCEPT
            !.calls = calls_for(@, chunk_rows \o
                          NewChunkRows(create_chunks(masked_len, "gpt-4-turbo")))]
    /\ UNCHANGED <<celery_app, masked_len, queue>>
    /\ UNCHANGED <<scenario, held_resume>>
    /\ UNCHANGED plan_vars
    /\ UNCHANGED deep_vars

SyncClaim ==
    /\ pc = "sync_loop"
    /\ run.pos < Len(run.chunk_records)
    /\ LET p == run.chunk_records[run.pos + 1]
       IN  /\ chunk_rows' = [chunk_rows EXCEPT ![p].status = "processing"]
           /\ run' = [run EXCEPT !.pos = run.pos + 1,
                                 !.retry_count = 0,
                                 !.max_retries = MAX_RETRIES,
                                 !.last_error = NONE,
                                 !.claimed = Append(run.claimed, p)]
    /\ pc' = "sync_retry"
    /\ UNCHANGED <<celery_app, masked_len, analysis, queue, observed>>
    /\ UNCHANGED <<scenario, held_resume>>
    /\ UNCHANGED plan_vars
    /\ UNCHANGED deep_vars

SyncAttemptOk ==
    /\ pc = "sync_retry"
    /\ may_retry(run.retry_count, MAX_RETRIES)
    /\ chunk_rows' = [chunk_rows EXCEPT ![Current].llm_response = "response",
                                        ![Current].status = "completed",
                                        ![Current].retry_count = run.retry_count]
    /\ analysis' = [analysis EXCEPT !.completed_chunks = analysis.completed_chunks + 1]
    /\ run' = [run EXCEPT !.called = run.called \cup {Current}]
    /\ pc' = "sync_loop"
    /\ observed' = [observed EXCEPT !.calls[Current] = @ + 1]
    /\ UNCHANGED <<celery_app, masked_len, queue>>
    /\ UNCHANGED <<scenario, held_resume>>
    /\ UNCHANGED plan_vars
    /\ UNCHANGED deep_vars

SyncAttemptError ==
    /\ pc = "sync_retry"
    /\ may_retry(run.retry_count, MAX_RETRIES)
    /\ \E error_str \in ErrorMessages :
          run' = [run EXCEPT !.retry_count = run.retry_count + 1,
                             !.last_error = error_str,
                             !.called = run.called \cup {Current}]
    /\ chunk_rows' = [chunk_rows EXCEPT ![Current].retry_count = run.retry_count + 1]
    /\ observed' = [observed EXCEPT !.llm_failed = TRUE, !.calls[Current] = @ + 1]
    /\ UNCHANGED <<celery_app, masked_len, analysis, queue, pc>>
    /\ UNCHANGED <<scenario, held_resume>>
    /\ UNCHANGED plan_vars
    /\ UNCHANGED deep_vars

\* "if not success": the chunk is marked failed and the loop goes on
SyncSettleFailed ==
    /\ pc = "sync_retry"
    /\ ~may_retry(run.retry_count, MAX_RETRIES)
    /\ chunk_rows' = [chunk_rows EXCEPT ![Current].status = "failed",
                                        ![Current].error_message = run.last_error]
    /\ run' = [run EXCEPT !.generic_failed = run.generic_failed \cup {Current}]
    /\ pc' = "sync_loop"
    /\ UNCHANGED <<celery_app, masked_len, analysis, queue, observed>>
    /\ UNCHANGED <<scenario, held_resume>>
    /\ UNCHANGED plan_vars
    /\ UNCHANGED deep_vars

\* after the loop: the completed chunks are gathered for consolidation
SyncFinish ==
    /\ pc = "sync_loop"
    /\ run.pos = Len(run.chunk_records)
    /\ IF CompletedRecords(chunk_rows) = << >>
       THEN /\ analysis' = [analysis EXCEPT !.status = "failed",
                                            !.llm_response = "no_completed_chunks"]
            /\ run' = [run EXCEPT !.result = "no_completed_chunks"]
            /\ pc' = "idle"
       ELSE /\ pc' = "sync_consolidate"
            /\ UNCHANGED <<analysis, run>>
    /\ UNCHANGED <<celery_app, masked_len, chunk_rows, queue, observed>>
    /\ UNCHANGED <<scenario, held_resume>>
    /\ UNCHANGED plan_vars
    /\ UNCHANGED deep_vars

SyncConsolidateCall ==
    /\ pc = "sync_consolidate"
    /\ \/ /\ analysis' = consolidation_succeeded(analysis)
          /\ run' = [run EXCEPT !.result = "completed"]
          /\ observed' = [observed EXCEPT !.consolidation = "succeeded"]
       \/ /\ analysis' = [analysis EXCEPT !.status = "failed", !.llm_response = "error"]
          /\ run' = [run EXCEPT !.result = "error"]
          /\ observed' = [observed EXCEPT !.consolidation = "failed", !.llm_failed = TRUE,
                                         !.rows_at_failure = chunk_rows]
    /\ pc' = "idle"
    /\ UNCHANGED <<celery_app, masked_len, chunk_rows, queue>>
    /\ UNCHANGED <<scenario, held_resume>>
    /\ UNCHANGED plan_vars
    /\ UNCHANGED deep_vars

\* ---------------------------------------------------------------------------
\* routes/pii.py: resume_analysis
\* ---------------------------------------------------------------------------
EveryStatus == {"processing", "completed", "timeout", "paused", "partial", "failed"}

\* analysis.status not in ["paused", "partial", "failed"] raises HTTP 400
ResumableStatuses == {"paused", "partial", "failed"}

\* reset_failed_chunks: failed rows back to pending with their error cleared
reset_failed(rows) ==
    [p \in DOMAIN rows |->
        IF rows[p].status = "failed"
        THEN [rows[p] EXCEPT !.status = "pending", !.retry_count = 0,
                             !.error_message = NONE, !.error_code = NONE]
        ELSE rows[p]]

\* an accepted resume request; the run is enqueued when the task is importable
\* (celery_app is not None) and the broker accepts it
ResumeAnalysis ==
    /\ analysis.status \in ResumableStatuses
    /\ \E new_model \in PIIModels \cup {NONE}, reset_failed_chunks \in BOOLEAN,
          delay_raises \in BOOLEAN :
          /\ Len(chunk_rows) = 0 =>
                Len(create_chunks(masked_len,
                        IF new_model = NONE THEN analysis.llm_model ELSE new_model))
                    <= MaxPlanned
          /\ analysis' = [analysis EXCEPT
                !.llm_model = IF new_model = NONE THEN @ ELSE new_model,
                !.failed_chunks = IF reset_failed_chunks THEN 0 ELSE @,
                !.is_paused = FALSE,
                !.pause_reason = NONE,
                !.status = "processing"]
          /\ chunk_rows' = IF reset_failed_chunks THEN reset_failed(chunk_rows)
                           ELSE chunk_rows
          /\ queue' = IF celery_app /\ ~delay_raises
                      THEN Append(queue, "process_pii_analysis_chunked")
                      ELSE queue
          /\ observed' = [observed EXCEPT
                !.rows_at_failure = IF analysis.status = "failed" THEN @ ELSE << >>,
                !.resume = IF reset_failed_chunks THEN "reset_failed" ELSE "kept_failed",
                !.rejected = FALSE,
                !.calls = [p \in DOMAIN @ |->
                             IF reset_failed_chunks /\ chunk_rows[p].status = "failed"
                             THEN 0 ELSE @[p]]]
    /\ run' = NoRun
    /\ UNCHANGED <<celery_app, masked_len, pc>>
    /\ UNCHANGED <<scenario, held_resume>>
    /\ UNCHANGED plan_vars
    /\ UNCHANGED deep_vars

\* resume_analysis takes no lock and no row lock (no with_for_update) between
\* reading analysis.status and committing its writes: a request served by
\* another process can be anywhere in between.  held_resume is such a request:
\* state "none" before it arrives, "held" between its check and its writes,
\* "served" once it has returned.  One such request is followed per analysis.
NoRequest == [state |-> "none", reset_failed_chunks |-> FALSE]

\* the request (new_model not given) has read the analysis and passed
\* "if analysis.status not in [...]"
ResumePassesCheck ==
    /\ scenario = "race"
    /\ held_resume.state = "none"
    /\ analysis.status \in ResumableStatuses
    /\ \E reset_failed_chunks \in BOOLEAN :
          held_resume' = [state |-> "held", reset_failed_chunks |-> reset_failed_chunks]
    /\ UNCHANGED <<celery_app, masked_len, analysis, chunk_rows, queue, pc, run, observed>>
    /\ UNCHANGED <<scenario>>
    /\ UNCHANGED plan_vars
    /\ UNCHANGED deep_vars

\* the rest of the handler: the writes, the commit and .delay, whatever the
\* status has become in the meantime
ResumeHeldProceeds ==
    /\ held_resume.state = "held"
    /\ analysis' = [analysis EXCEPT
          !.failed_chunks = IF held_resume.reset_failed_chunks THEN 0 ELSE @,
          !.is_paused = FALSE,
          !.pause_reason = NONE,
          !.status = "processing"]
    /\ chunk_rows' = IF held_resume.reset_failed_chunks THEN reset_failed(chunk_rows)
                     ELSE chunk_rows
    /\ \E delay_raises \in BOOLEAN :
          queue' = IF celery_app /\ ~delay_raises
                   THEN Append(queue, "process_pii_analysis_chunked")
                   ELSE queue
    /\ observed' = [observed EXCEPT
          !.rows_at_failure = IF analysis.status = "failed" THEN @ ELSE << >>,
          !.resume = IF held_resume.reset_failed_chunks THEN "reset_failed"
                     ELSE "kept_failed",
          !.rejected = FALSE,
          !.calls = [p \in DOMAIN @ |->
                       IF held_resume.reset_failed_chunks /\ chunk_rows[p].status = "failed"
                       THEN 0 ELSE @[p]]]
    /\ held_resume' = [held_resume EXCEPT !.state = "served"]
    /\ run' = IF pc = "idle" THEN NoRun ELSE run
    /\ UNCHANGED <<celery_app, masked_len, pc>>
    /\ UNCHANGED <<scenario>>
    /\ UNCHANGED plan_vars
    /\ UNCHANGED deep_vars

\* ---------------------------------------------------------------------------
\* routes/pii.py: get_analysis_progress (reads the analysis and its chunk rows)
\* ---------------------------------------------------------------------------
\* failed_chunks = sum(1 for c in chunks if c.status == "failed")
failed_chunks(rows) == Cardinality({k \in DOMAIN rows : rows[k].status = "failed"})

can_resume_unless_partial(status, rows) ==
    status \in {"paused", "failed"} /\ failed_chunks(rows) > 0

can_resume(status, rows) ==
    status \in {"paused", "partial", "failed"} /\ failed_chunks(rows) > 0

can_change_model(status, rows) == can_resume(status, rows)

\* a resume request for an analysis whose status is not resumable, made while
\* no task of the analysis is running: HTTP 400 is raised before anything is
\* written
ResumeRejected ==
    /\ analysis.status # "absent"
    /\ analysis.status \notin ResumableStatuses
    /\ pc = "idle"
    /\ observed' = [observed EXCEPT !.rejected = TRUE]
    /\ UNCHANGED <<celery_app, masked_len, analysis, chunk_rows, queue, pc, run>>
    /\ UNCHANGED <<scenario, held_resume>>
    /\ UNCHANGED plan_vars
    /\ UNCHANGED deep_vars


\* ---------------------------------------------------------------------------
\* Deep analysis (deep_analysis_service.py): helpers
\* ---------------------------------------------------------------------------
\* A text is the sequence of the lengths of its lines (text.split('\n')); a
\* chunk is the sequence of the lengths of the lines joined into it.
RECURSIVE SumSeq(_)
SumSeq(s) == IF s = << >> THEN 0 ELSE Head(s) + SumSeq(Tail(s))

\* len('\n'.join(lines))
JoinedLength(lines) == IF lines = << >> THEN 0 ELSE SumSeq(lines) + Len(lines) - 1

chunk_opened_empty(line) == << >>

\* current_chunk = [line]
chunk_opened_with(line) == << line >>

\* the for loop of _split_into_chunks, from line k on
RECURSIVE split_loop(_, _, _, _, _)
split_loop(lines, k, current_chunk, current_size, chunks) ==
    IF k > Len(lines)
    THEN IF current_chunk # << >> THEN Append(chunks, current_chunk) ELSE chunks
    ELSE LET line_size == lines[k]
         IN  IF current_size + line_size > CHUNK_SIZE_CHARS /\ current_chunk # << >>
             THEN split_loop(lines, k + 1, chunk_opened_with(lines[k]), line_size,
                             Append(chunks, current_chunk))
             ELSE split_loop(lines, k + 1, Append(current_chunk, lines[k]),
                             current_size + line_size + 1, chunks)

split_into_chunks(lines) == split_loop(lines, 1, << >>, 0, << >>)

\* An extraction or refined result: what it is and which chunk it came from.
\*   parsed        the JSON the LLM returned for the chunk
\*   raw_response  {"raw_response": text}, the response was not JSON
\*   error         {"error": str(e)}, the extraction call raised
\*   refined       the JSON the refine call returned
NoResult == [kind |-> "null", of |-> NULL]
Result(kind, i) == [kind |-> kind, of |-> i]

\* len(json.dumps(result, ensure_ascii=False)) of the results of the model
DumpLength(result) ==
    CASE result.kind = "parsed"       -> 2600
      [] result.kind = "refined"      -> 3100
      [] result.kind = "raw_response" -> 900
      [] result.kind = "error"        -> 40
      [] OTHER                        -> 4

\* len(f"\n\n### Chunk {chunk_number}:\n") for chunk_number < 10
HeaderLength == 15

ContextLength(context) == SumSeq([k \in DOMAIN context |-> context[k].len])

max_context_size == 8000

\* combined[:max_context_size] on a context made of labelled entries: `drop`
\* characters are cut from the end
RECURSIVE DropFromEnd(_, _)
DropFromEnd(context, drop) ==
    LET last == Len(context)
    IN  IF drop <= 0 \/ context = << >> THEN context
        ELSE IF context[last].len <= drop
             THEN DropFromEnd(SubSeq(context, 1, last - 1), drop - context[last].len)
             ELSE [context EXCEPT ![last].len = @ - drop, ![last].whole = FALSE]

\* combined[-max_context_size:] on a context made of labelled entries: `drop`
\* characters are cut from the start
RECURSIVE DropFromStart(_, _)
DropFromStart(context, drop) ==
    IF drop <= 0 \/ context = << >> THEN context
    ELSE IF Head(context).len <= drop
         THEN DropFromStart(Tail(context), drop - Head(context).len)
         ELSE << [Head(context) EXCEPT !.len = @ - drop, !.whole = FALSE] >> \o Tail(context)

\* previous_context + new_context the other way round
newest_first(previous_context, new_context) == << new_context >> \o previous_context

\* combined = previous_context + new_context
oldest_first(previous_context, new_context) == Append(previous_context, new_context)

\* new_context = f"\n\n### Chunk {chunk_number}:\n{new_summary}", with
\* new_summary = json.dumps(new_extraction, ensure_ascii=False)[:2000]
labelled_entry(new_extraction, chunk_number) ==
    [chunk_number |-> chunk_number, result |-> new_extraction,
     len |-> HeaderLength + Min(DumpLength(new_extraction), 2000), whole |-> TRUE]

build_uncapped_context(previous_context, new_extraction, chunk_number) ==
    oldest_first(previous_context, labelled_entry(new_extraction, chunk_number))

build_accumulated_context(previous_context, new_extraction, chunk_number) ==
    LET new_context == labelled_entry(new_extraction, chunk_number)
        combined == oldest_first(previous_context, new_context)
    IN  IF ContextLength(combined) > max_context_size
        THEN DropFromStart(combined, ContextLength(combined) - max_context_size)
        ELSE combined

NoDeepJob ==
    [status |-> "absent", total_chunks |-> 0, processed_chunks |-> 0,
     final_result |-> NONE, error_message |-> NONE]

\* What llm_service.analyze returned for an extraction: fence says whether the
\* text holds a ```json fence, a plain ``` fence or none; fenced whether the text
\* inside the fence is JSON; whole whether the whole text is JSON (a text with a
\* fence is not).  NoResponse stands for no call yet, Raised for a call that
\* raised.
NoResponse == [fence |-> "none", fenced |-> "none", whole |-> "none"]
Raised == [fence |-> "none", fenced |-> "none", whole |-> "raised"]
Responses ==
    [fence : {"json", "plain"}, fenced : {"json", "text"}, whole : {"text"}]
        \cup [fence : {"none"}, fenced : {"none"}, whole : {"json", "text"}]

\* json_match: the part of the response handed to json.loads
json_match(response) ==
    IF response.fence \in {"json", "plain"} THEN response.fenced ELSE response.whole

unparsed_as_error(i) == Result("error", i)

\* except: return {"raw_response": response}
unparsed(i) == Result("raw_response", i)

\* _extract_chunk: the result for chunk i of what the LLM call did
extract_chunk(response, i) ==
    IF response = Raised THEN Result("error", i)
    ELSE IF json_match(response) = "json" THEN Result("parsed", i)
    ELSE unparsed(i)

NoDeepRun ==
    [chunks |-> << >>, i |-> 0, accumulated_context |-> << >>, all_extractions |-> << >>,
     row |-> 0, response |-> NoResponse, extraction |-> NoResult, first_row |-> 0,
     streams |-> 0, consolidation |-> "none", llm_failed |-> FALSE]

\* ceil(text_length / CHUNK_SIZE_CHARS), at least 1, as create_job estimates it
EstimatedChunks(text_length) ==
    IF (text_length + CHUNK_SIZE_CHARS - 1) \div CHUNK_SIZE_CHARS < 1 THEN 1
    ELSE (text_length + CHUNK_SIZE_CHARS - 1) \div CHUNK_SIZE_CHARS

\* DeepAnalysisJob(...) as create_job builds it
create_job(lines) ==
    [NoDeepJob EXCEPT !.status = "pending",
                      !.total_chunks = EstimatedChunks(JoinedLength(lines))]

\* ---------------------------------------------------------------------------
\* Bounded inputs of the deep analysis
\* ---------------------------------------------------------------------------
MaxLines == 3
\* the longest text has this many lines, each a chunk of its own
MaxLongLines == 6
\* process_job is entered at most this many times for the job
MaxStreams == 2
DeepLineLengths == {0, 12000, 26000}
LongTexts == {[k \in 1..n |-> 26000] : n \in (MaxLines + 1)..MaxLongLines}
DeepTexts == UNION {[1..n -> DeepLineLengths] : n \in 1..MaxLines} \cup LongTexts

\* texts of the jobs in whose runs an exception can leave process_job
FaultTexts == {<< 12000 >>, << 26000, 26000 >>}

\* texts handed to _split_into_chunks alone: lines around the halves of
\* CHUNK_SIZE_CHARS, an empty line, a line of CHUNK_SIZE_CHARS and a longer one
SplitLineLengths == {0, 12499, 12500, 20000, 25000, 25001}
SplitTexts == UNION {[1..n -> SplitLineLengths] : n \in 1..MaxLines}

\* ---------------------------------------------------------------------------
\* deep_analysis_service.py: DeepAnalysisService.process_job, entered by
\* routes/deep_analysis.py: stream_deep_analysis (which does not look at status)
\* ---------------------------------------------------------------------------
\* not pii_job.masked_chat_text
text_is_missing(lines) == JoinedLength(lines) = 0

\* entry up to the first iteration of the chunk loop
DeepStart ==
    /\ deep_job.status # "absent"
    /\ deep_pc = "idle"
    /\ deep_run.streams < MaxStreams
    /\ IF text_is_missing(deep_lines)
       THEN /\ deep_job' = [deep_job EXCEPT !.status = "failed",
                                            !.error_message = "no_masked_text"]
            /\ deep_run' = [NoDeepRun EXCEPT !.streams = deep_run.streams + 1,
                                             !.llm_failed = deep_run.llm_failed,
                                             !.first_row = Len(deep_rows) + 1]
            /\ deep_pc' = "idle"
       ELSE /\ deep_job' = [deep_job EXCEPT !.status = "processing",
                                !.total_chunks = Len(split_into_chunks(deep_lines))]
            /\ deep_run' = [NoDeepRun EXCEPT !.streams = deep_run.streams + 1,
                                             !.llm_failed = deep_run.llm_failed,
                                             !.first_row = Len(deep_rows) + 1,
                                             !.chunks = split_into_chunks(deep_lines)]
            /\ deep_pc' = "loop"
    /\ UNCHANGED <<deep_lines, deep_rows>>
    /\ UNCHANGED <<scenario>>
    /\ UNCHANGED plan_vars
    /\ UNCHANGED pii_vars

\* chunk_result = DeepAnalysisChunkResult(...); self.db.add(chunk_result).
\* A row is its chunk_index and status; the results written on it are the
\* ones process_job keeps in all_extractions
row_added(rows, i) ==
    Append(rows, [chunk_index |-> i, status |-> "processing"])

\* top of an iteration of "for i, chunk in enumerate(chunks)"
DeepChunkBegin ==
    /\ deep_pc = "loop"
    /\ deep_run.i < Len(deep_run.chunks)
    /\ deep_rows' = row_added(deep_rows, deep_run.i)
    /\ deep_run' = [deep_run EXCEPT !.row = Len(deep_rows) + 1,
                                    !.response = NoResponse,
                                    !.extraction = NoResult]
    /\ deep_pc' = "extract"
    /\ UNCHANGED <<deep_lines, deep_job>>
    /\ UNCHANGED <<scenario>>
    /\ UNCHANGED plan_vars
    /\ UNCHANGED pii_vars

\* the rest of the iteration once the refined result is known
ChunkDone(response, extraction, refined, llm_raised) ==
    /\ deep_rows' = [deep_rows EXCEPT ![deep_run.row].status = "completed"]
    /\ deep_run' = [deep_run EXCEPT
            !.accumulated_context =
                build_accumulated_context(deep_run.accumulated_context, refined,
                                          deep_run.i + 1),
            !.all_extractions = Append(deep_run.all_extractions, refined),
            !.response = response,
            !.extraction = extraction,
            !.i = deep_run.i + 1,
            !.llm_failed = deep_run.llm_failed \/ llm_raised]
    /\ deep_job' = [deep_job EXCEPT !.processed_chunks = deep_run.i + 1]
    /\ deep_pc' = "loop"

\* _extract_chunk returns: parsed JSON, the raw-response fallback, or the error
\* dictionary when the call raised
DeepExtract ==
    /\ deep_pc = "extract"
    /\ \E response \in Responses \cup {Raised} :
        LET extraction == extract_chunk(response, deep_run.i)
        IN  IF deep_run.accumulated_context # << >> /\ deep_run.i > 0
            THEN /\ UNCHANGED deep_rows
                 /\ deep_run' = [deep_run EXCEPT
                                    !.response = response,
                                    !.extraction = extraction,
                                    !.llm_failed = deep_run.llm_failed \/ response = Raised]
                 /\ deep_pc' = "refine"
                 /\ UNCHANGED deep_job
            ELSE ChunkDone(response, extraction, extraction, response = Raised)
    /\ UNCHANGED <<deep_lines>>
    /\ UNCHANGED <<scenario>>
    /\ UNCHANGED plan_vars
    /\ UNCHANGED pii_vars

\* _refine_with_context returns: the parsed refinement, or the current
\* extraction when the response is not JSON or the call raised
DeepRefine ==
    /\ deep_pc = "refine"
    /\ \E outcome \in {"parsed", "not_json", "raised"} :
          ChunkDone(deep_run.response, deep_run.extraction,
                    IF outcome = "parsed" THEN Result("refined", deep_run.i)
                    ELSE deep_run.extraction,
                    outcome = "raised")
    /\ UNCHANGED <<deep_lines>>
    /\ UNCHANGED <<scenario>>
    /\ UNCHANGED plan_vars
    /\ UNCHANGED pii_vars

\* job.status after _consolidate_results returned its error text: the caller
\* cannot tell it from a report
status_after_consolidation_error == "completed"

\* after the loop: _consolidate_results and the final update of the job
DeepConsolidate ==
    /\ deep_pc = "loop"
    /\ deep_run.i = Len(deep_run.chunks)
    /\ \/ /\ deep_job' = [deep_job EXCEPT !.final_result = "report",
                                          !.status = "completed"]
          /\ deep_run' = [deep_run EXCEPT !.consolidation = "succeeded"]
       \/ /\ deep_job' = [deep_job EXCEPT !.final_result = "consolidation_error_text",
                                          !.status = status_after_consolidation_error]
          /\ deep_run' = [deep_run EXCEPT !.consolidation = "failed",
                                          !.llm_failed = TRUE]
    /\ deep_pc' = "idle"
    /\ UNCHANGED <<deep_lines, deep_rows>>
    /\ UNCHANGED <<scenario>>
    /\ UNCHANGED plan_vars
    /\ UNCHANGED pii_vars

\* an exception leaves the body of process_job while the chunks are worked on
\* (a db.commit() that raises, for one): the handler around the body marks the
\* job failed
DeepEscapes ==
    /\ scenario = "fault"
    /\ deep_pc \in {"loop", "extract", "refine"}
    /\ deep_job' = [deep_job EXCEPT !.status = "failed", !.error_message = "exception"]
    /\ deep_pc' = "idle"
    /\ UNCHANGED <<deep_lines, deep_rows, deep_run>>
    /\ UNCHANGED <<scenario>>
    /\ UNCHANGED plan_vars
    /\ UNCHANGED pii_vars

\* _split_into_chunks applied to a text, outside process_job
SplitIntoChunks ==
    /\ scenario = "split"
    /\ deep_pc = "idle"
    /\ deep_run' = [deep_run EXCEPT !.chunks = split_into_chunks(deep_lines)]
    /\ deep_pc' = "split_returned"
    /\ UNCHANGED <<deep_lines, deep_job, deep_rows>>
    /\ UNCHANGED <<scenario>>
    /\ UNCHANGED plan_vars
    /\ UNCHANGED pii_vars

\* ---------------------------------------------------------------------------
\* Chunk planner applied to a bounded input
\* ---------------------------------------------------------------------------
PlanTextLengths ==
    {n \in {1000 * k + d : k \in 0..MaxKilo, d \in {-1, 0, 1}} : n >= 0}

PlanChunks ==
    /\ scenario = "plan"
    /\ ~plan_done
    /\ plan_chunks' = create_chunks(plan_text_length, plan_model)
    /\ plan_done' = TRUE
    /\ UNCHANGED <<plan_text_length, plan_model, plan_settings>>
    /\ UNCHANGED <<scenario>>
    /\ UNCHANGED pii_vars
    /\ UNCHANGED deep_vars

\* ---------------------------------------------------------------------------
\* create_chunks followed pass by pass, for the settings MODEL_CHUNK_SIZES holds
\* for the model: the shipped entry, or an entry edited so that the overlap is
\* the size or more
\* ---------------------------------------------------------------------------
EditedSettings ==
    {MODEL_CHUNK_SIZES["gpt-3.5-turbo"],
     [size |-> 12000, overlap |-> 12000],
     [size |-> 12000, overlap |-> 15000]}

PassTextLengths == {0, 12000, 12001, 30000, 70000}

\* `start` at the top of the next pass of the while loop
start_of_next_pass(chunks, settings) ==
    IF chunks = << >> THEN 0
    ELSE next_start(chunks[Len(chunks)].start, settings.size, settings.overlap)

\* the early return, or one pass of the while loop
CreateChunksPass ==
    /\ scenario = "passes"
    /\ ~plan_done
    /\ Len(plan_chunks) < MaxPasses
    /\ LET chunk_size == plan_settings.size
           start == start_of_next_pass(plan_chunks, plan_settings)
           end == chunk_end(start, chunk_size, plan_text_length)
       IN  IF plan_chunks = << >> /\ plan_text_length <= chunk_size
           THEN /\ plan_chunks' = single_chunk(plan_text_length)
                /\ plan_done' = TRUE
           ELSE IF ~(start < plan_text_length)
           THEN /\ plan_done' = TRUE
                /\ UNCHANGED plan_chunks
           ELSE /\ plan_chunks' = Append(plan_chunks,
                        [index |-> Len(plan_chunks), start |-> start, end |-> end])
                /\ plan_done' = (end >= plan_text_length)
    /\ UNCHANGED <<plan_text_length, plan_model, plan_settings>>
    /\ UNCHANGED <<scenario>>
    /\ UNCHANGED pii_vars
    /\ UNCHANGED deep_vars

\* ---------------------------------------------------------------------------
\* Specification: one of six independent scenarios
\*   plan  create_chunks is applied to a text length and a model
\*   passes  create_chunks is followed pass by pass
\*   pii   one PIIAnalysis of a PII job is started, run and resumed
\*   deep  one DeepAnalysisJob, created by create_job, is streamed
\*   split _split_into_chunks is applied to a text
\*   fault one PIIAnalysis or one DeepAnalysisJob in whose task an exception
\*         other than an LLM error can be raised
\* ---------------------------------------------------------------------------
IdlePlan ==
    /\ plan_text_length = 0
    /\ plan_model = "gpt-4-turbo"
    /\ plan_settings = get_chunk_settings("gpt-4-turbo")
    /\ plan_chunks = << >>
    /\ plan_done = FALSE

IdlePII ==
    /\ celery_app = FALSE
    /\ masked_len = 0
    /\ analysis = NoAnalysis
    /\ chunk_rows = << >>
    /\ queue = << >>
    /\ pc = "idle"
    /\ run = NoRun
    /\ observed = NothingObserved
    /\ held_resume = NoRequest

IdleDeep ==
    /\ deep_lines = << 0 >>
    /\ deep_job = NoDeepJob
    /\ deep_rows = << >>
    /\ deep_pc = "idle"
    /\ deep_run = NoDeepRun

PlanInit ==
    /\ scenario = "plan"
    /\ plan_text_length \in PlanTextLengths
    /\ plan_model \in ModelNames
    /\ plan_settings = get_chunk_settings(plan_model)
    /\ plan_chunks = << >>
    /\ plan_done = FALSE
    /\ IdlePII
    /\ IdleDeep

PassesInit ==
    /\ scenario = "passes"
    /\ plan_text_length \in PassTextLengths
    /\ plan_model = "gpt-3.5-turbo"
    /\ plan_settings \in EditedSettings
    /\ plan_chunks = << >>
    /\ plan_done = FALSE
    /\ IdlePII
    /\ IdleDeep

PIIInit ==
    /\ scenario = "pii"
    /\ celery_app \in BOOLEAN
    /\ masked_len \in PIITextLengths
    /\ analysis = NoAnalysis
    /\ chunk_rows = << >>
    /\ queue = << >>
    /\ pc = "idle"
    /\ run = NoRun
    /\ observed = NothingObserved
    /\ held_resume = NoRequest
    /\ IdlePlan
    /\ IdleDeep

DeepInit ==
    /\ scenario = "deep"
    /\ deep_lines \in DeepTexts
    /\ deep_job = create_job(deep_lines)
    /\ deep_rows = << >>
    /\ deep_pc = "idle"
    /\ deep_run = NoDeepRun
    /\ IdlePlan
    /\ IdlePII

SplitInit ==
    /\ scenario = "split"
    /\ deep_lines \in SplitTexts
    /\ deep_job = NoDeepJob
    /\ deep_rows = << >>
    /\ deep_pc = "idle"
    /\ deep_run = NoDeepRun
    /\ IdlePlan
    /\ IdlePII

FaultInit ==
    /\ scenario = "fault"
    /\ IdlePlan
    /\ \/ /\ celery_app = TRUE
          /\ masked_len = 70000
          /\ analysis = NoAnalysis
          /\ chunk_rows = << >>
          /\ queue = << >>
          /\ pc = "idle"
          /\ run = NoRun
          /\ observed = NothingObserved
          /\ held_resume = NoRequest
          /\ IdleDeep
       \/ /\ deep_lines \in FaultTexts
          /\ deep_job = create_job(deep_lines)
          /\ deep_rows = << >>
          /\ deep_pc = "idle"
          /\ deep_run = NoDeepRun
          /\ IdlePII

\* one analysis of a text that needs chunking, with the task queue available and
\* resume requests served by more than one server process
RaceInit ==
    /\ scenario = "race"
    /\ celery_app = TRUE
    /\ masked_len = 70000
    /\ analysis = NoAnalysis
    /\ chunk_rows = << >>
    /\ queue = << >>
    /\ pc = "idle"
    /\ run = NoRun
    /\ observed = NothingObserved
    /\ held_resume = NoRequest
    /\ IdlePlan
    /\ IdleDeep

Init ==
    PlanInit \/ PassesInit \/ PIIInit \/ DeepInit \/ SplitInit \/ FaultInit \/ RaceInit

Next ==
    \/ PlanChunks
    \/ CreateChunksPass
    \/ StartChunkedAsync
    \/ StartChunkedSync
    \/ StartDirect
    \/ DirectCall
    \/ ChunkedBegin
    \/ ChunkedClaim
    \/ ChunkedAttemptOk
    \/ ChunkedAttemptError
    \/ ChunkedWake
    \/ ChunkedSettleFailed
    \/ ChunkedFinish
    \/ ChunkedEscapes
    \/ ConsolidateBegin
    \/ ConsolidateCall
    \/ SyncBegin
    \/ SyncClaim
    \/ SyncAttemptOk
    \/ SyncAttemptError
    \/ SyncSettleFailed
    \/ SyncFinish
    \/ SyncConsolidateCall
    \/ ResumeAnalysis
    \/ ResumeRejected
    \/ ResumePassesCheck
    \/ ResumeHeldProceeds
    \/ DeepStart
    \/ DeepChunkBegin
    \/ DeepExtract
    \/ DeepRefine
    \/ DeepConsolidate
    \/ DeepEscapes
    \/ SplitIntoChunks

Spec == Init /\ [][Next]_vars

\* ---------------------------------------------------------------------------
\* The chunked PII analysis alone, with the scheduling the deployment gives it
\* ---------------------------------------------------------------------------
LiveTextLengths == {70000}

LiveInit ==
    /\ scenario = "pii"
    /\ celery_app \in BOOLEAN
    /\ masked_len \in LiveTextLengths
    /\ analysis = NoAnalysis
    /\ chunk_rows = << >>
    /\ queue = << >>
    /\ pc = "idle"
    /\ run = NoRun
    /\ observed = NothingObserved
    /\ held_resume = NoRequest
    /\ IdlePlan
    /\ IdleDeep

\* the steps of process_pii_analysis_chunked and process_pii_analysis_sync: the
\* worker takes a queued task, every LLM call returns, every sleep ends
TaskSteps ==
    \/ ChunkedBegin
    \/ ChunkedClaim
    \/ ChunkedAttemptOk
    \/ ChunkedAttemptError
    \/ ChunkedWake
    \/ ChunkedSettleFailed
    \/ ChunkedFinish
    \/ ConsolidateBegin
    \/ ConsolidateCall
    \/ SyncBegin
    \/ SyncClaim
    \/ SyncAttemptOk
    \/ SyncAttemptError
    \/ SyncSettleFailed
    \/ SyncFinish
    \/ SyncConsolidateCall

LiveNext ==
    \/ StartChunkedAsync
    \/ StartChunkedSync
    \/ ResumeAnalysis
    \/ ResumeRejected
    \/ ChunkedBegin
    \/ ChunkedClaim
    \/ ChunkedAttemptOk
    \/ ChunkedAttemptError
    \/ ChunkedWake
    \/ ChunkedSettleFailed
    \/ ChunkedFinish
    \/ ConsolidateBegin
    \/ ConsolidateCall
    \/ SyncBegin
    \/ SyncClaim
    \/ SyncAttemptOk
    \/ SyncAttemptError
    \/ SyncSettleFailed
    \/ SyncFinish
    \/ SyncConsolidateCall

\* requests arrive when clients send them; a started or queued task is run to
\* its end by the worker or the request handler
LiveSpec == LiveInit /\ [][LiveNext]_vars /\ WF_vars(TaskSteps)

\* ---------------------------------------------------------------------------
\* Properties
\* ---------------------------------------------------------------------------
Range(s) == {s[k] : k \in DOMAIN s}

\* position of row p in the list of records the run iterates over
PositionOf(p) == CHOOSE k \in DOMAIN run.chunk_records : run.chunk_records[k] = p

\* the run of process_pii_analysis_chunked has returned
ChunkedReturned ==
    /\ run.kind = "chunked"
    /\ pc = "idle"
    /\ run.result \in {"paused", "partial", "chunks_completed"}

\* C1: for a non-empty text the plan has indices 0,1,2,..., starts at offset 0,
\* has no gap between consecutive chunks and ends exactly at len(text).
ChunkCoverage ==
    (plan_done /\ plan_text_length > 0) =>
        /\ Len(plan_chunks) >= 1
        /\ \A i \in 1..Len(plan_chunks) : plan_chunks[i].index = i - 1
        /\ plan_chunks[1].start = 0
        /\ \A i \in 2..Len(plan_chunks) :
              plan_chunks[i].start <= plan_chunks[i - 1].end
        /\ \A i \in 1..Len(plan_chunks) : plan_chunks[i].start < plan_chunks[i].end
        /\ plan_chunks[Len(plan_chunks)].end = plan_text_length

ChunkCoverageWitness ==
    /\ plan_done
    /\ plan_text_length > 0
    /\ Len(plan_chunks) >= 3
    /\ plan_chunks[Len(plan_chunks)].end - plan_chunks[Len(plan_chunks)].start
         < get_chunk_settings(plan_model).size

\* C2: in a plan of more than one chunk every adjacent pair, the last one
\* included, overlaps by exactly overlap(model) characters.
OverlapInvariant ==
    (plan_done /\ Len(plan_chunks) > 1) =>
        \A i \in 1..(Len(plan_chunks) - 1) :
            plan_chunks[i].end - plan_chunks[i + 1].start
                = get_chunk_settings(plan_model).overlap

OverlapWitness ==
    /\ plan_done
    /\ Len(plan_chunks) >= 3
    /\ plan_chunks[Len(plan_chunks)].end - plan_chunks[Len(plan_chunks)].start
         = get_chunk_settings(plan_model).overlap + 1

\* C3 (as claimed): planning an empty text yields zero chunks, and a job whose
\* masked text is empty gets no chunk rows and total_chunks 0.
EmptyTextYieldsNoChunks ==
    /\ (plan_done /\ plan_text_length = 0) => Len(plan_chunks) = 0
    /\ (run.kind = "chunked" /\ masked_len = 0) =>
            (chunk_rows = << >> /\ analysis.total_chunks = 0)

\* C4 (as claimed): when a run of process_pii_analysis_chunked has returned,
\* completed_chunks + failed_chunks is the number of chunk rows that are
\* completed or failed, and is at most total_chunks.
CounterInvariant ==
    ChunkedReturned =>
        LET settled == {p \in DOMAIN chunk_rows :
                            chunk_rows[p].status \in {"completed", "failed"}}
        IN  /\ analysis.completed_chunks + analysis.failed_chunks = Cardinality(settled)
            /\ analysis.completed_chunks + analysis.failed_chunks <= analysis.total_chunks

\* C5 (as claimed): however often processing is entered, a job has one chunk row
\* per planned chunk index and no more.
NoDuplicateChunkRows ==
    /\ \A p, q \in DOMAIN chunk_rows :
          p # q => chunk_rows[p].chunk_index # chunk_rows[q].chunk_index
    /\ \A p, q \in DOMAIN deep_rows :
          p # q => deep_rows[p].chunk_index # deep_rows[q].chunk_index

\* C6 (as claimed): the chunk rows of an analysis carry the indices 0..N-1, each
\* once, with N = analysis.total_chunks, and a run leaves the offsets of the
\* rows it found as they were.
ChunkIndexRange ==
    chunk_rows # << >> =>
        /\ Len(chunk_rows) = analysis.total_chunks
        /\ \A p \in DOMAIN chunk_rows : chunk_rows[p].chunk_index = p - 1
        /\ run.kind \in {"chunked", "consolidate"} =>
              \A p \in DOMAIN run.snapshot :
                  /\ chunk_rows[p].start_char = run.snapshot[p].start_char
                  /\ chunk_rows[p].end_char = run.snapshot[p].end_char

\* the run is the only writer of the analysis and its chunk rows: no resume
\* request that overlapped another one has written to them (spec 5)
SoleWriter == held_resume.state # "served"

\* C7: when a chunk of a process_pii_analysis_chunked run ends its retries on an
\* error that extract_rate_limit_info classifies as a rate limit, the run has
\* returned with the analysis paused, and no chunk with a greater index was
\* claimed, sent to the LLM or changed by that run.
\* It is stated of a run that is the only writer of the analysis (SoleWriter).
RateLimitPauseStopsRun ==
    (run.kind = "chunked" /\ run.rate_limited # {} /\ SoleWriter) =>
        /\ pc = "idle"
        /\ run.result = "paused"
        /\ analysis.status = "paused"
        /\ analysis.is_paused
        /\ \A p \in run.rate_limited :
              /\ chunk_rows[p].status = "failed"
              /\ \A q \in DOMAIN chunk_rows :
                    chunk_rows[q].chunk_index > chunk_rows[p].chunk_index =>
                        /\ q \notin Range(run.claimed)
                        /\ q \notin run.called
                        /\ chunk_rows[q] = run.snapshot[q]

RateLimitPauseWitness ==
    /\ run.kind = "chunked"
    /\ run.rate_limited # {}
    /\ \E p \in run.rate_limited, q \in DOMAIN chunk_rows :
          /\ chunk_rows[q].chunk_index > chunk_rows[p].chunk_index
          /\ chunk_rows[q].status = "pending"
          /\ q \in Range(run.chunk_records)

\* C8: a chunk that ended its retries on generic errors is marked failed with
\* the error in its record, and the loop goes on: either a later record has been
\* claimed or the loop stands before the next one; the run did not pause on it.
\* It is stated of a run that is the only writer of the analysis (SoleWriter).
GenericFailureContinues ==
    (run.kind \in {"chunked", "sync"} /\ SoleWriter) =>
        \A p \in run.generic_failed :
            /\ chunk_rows[p].status = "failed"
            /\ chunk_rows[p].error_message \in ErrorMessages
            /\ PositionOf(p) < Len(run.chunk_records) =>
                  \/ run.chunk_records[PositionOf(p) + 1] \in Range(run.claimed)
                  \/ /\ run.pos = PositionOf(p)
                     /\ pc \in {"chunked_loop", "sync_loop"}
                  \/ run.result = "raised"
            /\ (run.result = "paused" => Current # p)

GenericFailureWitness ==
    /\ run.kind = "chunked"
    /\ \E p \in run.generic_failed :
          /\ PositionOf(p) < Len(run.chunk_records)
          /\ run.chunk_records[PositionOf(p) + 1] \in run.called
          /\ chunk_rows[p].error_message = "Request timed out"

\* what C9 promises of a job that is at rest and none of whose LLM calls failed
PIICompleted ==
    /\ analysis.status = "completed"
    /\ analysis.llm_response = "response"
    /\ analysis.failed_chunks = 0
    /\ \A p \in DOMAIN chunk_rows : chunk_rows[p].status = "completed"
    /\ analysis.is_chunked =>
          /\ analysis.completed_chunks = Len(chunk_rows)
          /\ analysis.total_chunks = Len(chunk_rows)
          /\ analysis.consolidated_response = "response"
    /\ (masked_len = 150000 /\ analysis.llm_model = "gpt-4-turbo") =>
          /\ analysis.completed_chunks = 3
          /\ [p \in DOMAIN chunk_rows |->
                 << chunk_rows[p].start_char, chunk_rows[p].end_char >>]
               = << <<0, 60000>>, <<50000, 110000>>, <<100000, 150000>> >>

DeepCompleted ==
    /\ deep_job.status = "completed"
    /\ deep_job.final_result = "report"
    /\ deep_job.processed_chunks = Len(deep_run.chunks)
    /\ deep_job.total_chunks = Len(deep_run.chunks)
    /\ Len(deep_rows) - deep_run.first_row + 1 = Len(deep_run.chunks)
    /\ \A p \in DOMAIN deep_rows : deep_rows[p].status = "completed"

PIIAtRestNoFailure ==
    /\ scenario = "pii"
    /\ analysis.status # "absent"
    /\ pc = "idle"
    /\ queue = << >>
    /\ ~observed.llm_failed

DeepAtRestNoFailure ==
    /\ scenario = "deep"
    /\ deep_job.status # "pending"
    /\ deep_pc = "idle"
    /\ ~deep_run.llm_failed

PlanExample ==
    (plan_done /\ plan_text_length = 150000
        /\ get_chunk_settings(plan_model) = [size |-> 60000, overlap |-> 10000]) =>
        plan_chunks = << [index |-> 0, start |-> 0, end |-> 60000],
                         [index |-> 1, start |-> 50000, end |-> 110000],
                         [index |-> 2, start |-> 100000, end |-> 150000] >>

ResumeRerunsOnlyConsolidation ==
    observed.rows_at_failure # << >> =>
        /\ chunk_rows = observed.rows_at_failure
        /\ run.kind = "chunked" => (run.claimed = << >> /\ run.called = {})

\* the rows of the run's snapshot that were claimable when the run began
ClaimableAtBegin ==
    {p \in DOMAIN run.snapshot : run.snapshot[p].status \in {"pending", "processing", "failed"}}

ResumeOnlyWhenResumable ==
    [][((ResumeAnalysis \/ ResumeRejected)
            /\ analysis.status \notin {"paused", "partial", "failed"}) =>
        /\ observed'.rejected
        /\ UNCHANGED <<analysis, chunk_rows, queue, pc, run>>]_vars

ResumeRejectedWitness ==
    /\ observed.rejected
    /\ analysis.status = "completed"
    /\ analysis.is_chunked
    /\ chunk_rows # << >>

\* C14 (as claimed): when the run started by a resume without
\* reset_failed_chunks has returned, a row that was failed when the run began has
\* not been sent to the LLM and is as it was.
FailedChunksSkipped ==
    (observed.resume = "kept_failed" /\ ChunkedReturned) =>
        \A p \in DOMAIN run.snapshot :
            run.snapshot[p].status = "failed" =>
                /\ p \notin run.called
                /\ chunk_rows[p] = run.snapshot[p]

\* a status change that goes forward: out of pending, or from processing to one
\* of the statuses a run ends in
MovesForward(from, to) ==
    \/ from = to
    \/ from \in {"absent", "pending"}
    \/ from = "processing" /\ to \notin {"absent", "pending"}

\* C15 (as claimed): every step leaves the status of the analysis and of the deep
\* analysis job where it is or moves it forward, but for a resume request that
\* takes a paused, partial or failed analysis back to processing.
StatusOnlyForward ==
    [][/\ \/ MovesForward(analysis.status, analysis'.status)
          \/ /\ ResumeAnalysis
             /\ analysis.status \in {"paused", "partial", "failed"}
             /\ analysis'.status = "processing"
       /\ MovesForward(deep_job.status, deep_job'.status)]_vars

\* the text the LLM returned is not JSON: not inside its fence when it has one,
\* not as a whole when it has none
NotJson(response) ==
    \/ response.fence \in {"json", "plain"} /\ response.fenced = "text"
    \/ response.fence = "none" /\ response.whole = "text"

EntryOf(k) ==
    [chunk_number |-> k, result |-> deep_run.all_extractions[k],
     len |-> HeaderLength + Min(DumpLength(deep_run.all_extractions[k]), 2000),
     whole |-> TRUE]

\* the entries of chunks 0..n-1 of this run, in order
EntriesUpTo(n) == [k \in 1..n |-> EntryOf(k)]

ProgressFlags ==
    /\ analysis.status \in {"paused", "partial"} =>
            /\ can_resume(analysis.status, chunk_rows)
            /\ can_change_model(analysis.status, chunk_rows)
    /\ analysis.status \in {"pending", "processing", "completed"} =>
            /\ ~can_resume(analysis.status, chunk_rows)
            /\ ~can_change_model(analysis.status, chunk_rows)

\* a run that ended partial, with a failed row next to a completed one, for which
\* the endpoint reports both flags
ProgressFlagsWitness ==
    /\ analysis.status = "partial"
    /\ pc = "idle"
    /\ \E k \in DOMAIN chunk_rows : chunk_rows[k].status = "completed"
    /\ can_resume(analysis.status, chunk_rows)
    /\ can_change_model(analysis.status, chunk_rows)

\* the loop of process_pii_analysis_chunked ended without a pause
LoopEndedWithoutPause ==
    /\ run.kind = "chunked"
    /\ pc = "idle"
    /\ run.result \in {"partial", "chunks_completed"}

\* C20: when the loop over the claimable chunks ends without a pause, the
\* counters of the analysis decide: failed_chunks > 0 and completed_chunks > 0
\* gives partial and no consolidation; failed_chunks > 0 and completed_chunks = 0
\* gives no consolidation LLM call; only failed_chunks = 0 goes on to the
\* consolidation call.
CountersDecideOutcome ==
    /\ LoopEndedWithoutPause =>
          /\ (analysis.failed_chunks > 0 /\ analysis.completed_chunks > 0) =>
                /\ analysis.status = "partial"
                /\ run.result = "partial"
                /\ queue = << >>
          /\ analysis.failed_chunks = 0 =>
                /\ run.result = "chunks_completed"
                /\ queue = << "consolidate_pii_analysis" >>
    /\ pc = "consolidate_call" => analysis.failed_chunks = 0

\* a step of a chunk row's status that the life cycle allows; reset tells
\* whether the step is a resume request with reset_failed_chunks
ChunkStepAllowed(from, to, reset) ==
    \/ from = to
    \/ from = "pending" /\ to = "processing"
    \/ from = "processing" /\ to \in {"completed", "failed"}
    \/ from = "failed" /\ to = "pending" /\ reset

\* C21: a chunk row's status moves only pending -> processing -> completed or
\* failed; failed goes back to pending only in a resume request with
\* reset_failed_chunks, never from failed straight to processing; a completed
\* row keeps its status.
ChunkStatusLifeCycle ==
    [][\A p \in DOMAIN chunk_rows \cap DOMAIN chunk_rows' :
          ChunkStepAllowed(chunk_rows[p].status, chunk_rows'[p].status,
                           ResumeAnalysis /\ observed'.resume = "reset_failed")]_vars

\* C22: a run that paused because a chunk exhausted its retries on rate-limit
\* errors leaves the analysis paused with a pause_reason and a
\* rate_limit_wait_until that are not null.
PausedRecordComplete ==
    (run.kind = "chunked" /\ pc = "idle" /\ run.result = "paused") =>
        /\ analysis.status = "paused"
        /\ analysis.is_paused
        /\ analysis.pause_reason # NONE
        /\ analysis.rate_limit_wait_until # NULL

\* the retry loop of the run is at work on row p
InRetryLoop(p) ==
    /\ pc \in {"chunked_retry", "chunked_sleep", "sync_retry"}
    /\ Current = p

\* C23: for every chunk row, retry_count never exceeds max_retries (3), at most
\* max_retries LLM calls are made for it between two resets whatever the errors
\* are, and a row whose retry_count has reached max_retries is marked failed as
\* soon as its retry loop is left.
RetriesBounded ==
    \A p \in DOMAIN chunk_rows :
        /\ chunk_rows[p].max_retries = MAX_RETRIES
        /\ chunk_rows[p].retry_count <= chunk_rows[p].max_retries
        /\ observed.calls[p] <= chunk_rows[p].max_retries
        /\ (chunk_rows[p].retry_count = chunk_rows[p].max_retries /\ ~InRetryLoop(p)
                /\ scenario # "fault") =>
                chunk_rows[p].status = "failed"

\* a row marked failed after exactly max_retries calls, the last of which hit
\* a rate limit, next to a row that failed on other errors
RetriesBoundedWitness ==
    \E p, q \in DOMAIN chunk_rows :
        /\ chunk_rows[q].status = "failed"
        /\ chunk_rows[q].error_code = "UNKNOWN"
        /\ observed.calls[q] = MAX_RETRIES
        /\ chunk_rows[p].status = "failed"
        /\ chunk_rows[p].error_code = "RATE_LIMIT"
        /\ observed.calls[p] = MAX_RETRIES
        /\ chunk_rows[p].retry_count = MAX_RETRIES

LinesFit == \A k \in DOMAIN deep_lines : deep_lines[k] <= CHUNK_SIZE_CHARS

\* C25: every chunk create_chunks returns is at most size(model) characters
\* long, and every chunk _split_into_chunks returns for a text whose lines are
\* each at most CHUNK_SIZE_CHARS long is at most CHUNK_SIZE_CHARS characters
\* long.
ChunkLengthBounded ==
    /\ plan_done =>
          \A i \in DOMAIN plan_chunks :
              plan_chunks[i].end - plan_chunks[i].start <= plan_settings.size
    /\ LinesFit =>
          \A i \in DOMAIN deep_run.chunks :
              JoinedLength(deep_run.chunks[i]) <= CHUNK_SIZE_CHARS

\* the lines of the chunks, one chunk after the other
RECURSIVE LinesOf(_)
LinesOf(chunks) == IF chunks = << >> THEN << >> ELSE Head(chunks) \o LinesOf(Tail(chunks))

\* len('\n'.join(chunks))
JoinedChunksLength(chunks) ==
    IF chunks = << >> THEN 0
    ELSE SumSeq([i \in DOMAIN chunks |-> JoinedLength(chunks[i])]) + Len(chunks) - 1

\* C27: _split_into_chunks partitions the text without loss or overlap: the
\* chunks joined by newlines are the text again, every line of the text is in
\* exactly one chunk, and lines and chunks are in text order.
SplitIsPartition ==
    (deep_pc = "split_returned" \/ deep_run.chunks # << >>) =>
        /\ LinesOf(deep_run.chunks) = deep_lines
        /\ JoinedChunksLength(deep_run.chunks) = JoinedLength(deep_lines)
        /\ \A i \in DOMAIN deep_run.chunks : deep_run.chunks[i] # << >>

\* a text of three lines split into more than one chunk, one of them of two
\* lines
SplitIsPartitionWitness ==
    /\ deep_pc = "split_returned"
    /\ Len(deep_lines) = 3
    /\ Len(deep_run.chunks) = 2
    /\ Len(deep_run.chunks[2]) = 2
    /\ deep_lines[1] = 0

\* `context` is what is left of `combined` after characters were dropped from
\* its start only
IsSuffixOf(context, combined) ==
    /\ context # << >>
    /\ Len(context) <= Len(combined)
    /\ LET dropped == Len(combined) - Len(context)
       IN  /\ \A k \in 2..Len(context) : context[k] = combined[dropped + k]
           /\ context[1].chunk_number = combined[dropped + 1].chunk_number
           /\ context[1].result = combined[dropped + 1].result
           /\ context[1].len <= combined[dropped + 1].len
           /\ context[1].len > 0

\* C26: _build_accumulated_context returns at most max_context_size (8000)
\* characters, a suffix of previous_context followed by the new labelled entry:
\* characters are dropped from the start only and the new entry is kept whole.
FoldKeepsSuffix ==
    [][deep_run'.i = deep_run.i + 1 =>
        LET context == deep_run'.accumulated_context
            new_context == labelled_entry(deep_run'.all_extractions[deep_run'.i],
                                          deep_run'.i)
            combined == Append(deep_run.accumulated_context, new_context)
        IN  /\ ContextLength(context) <= max_context_size
            /\ ContextLength(context) = Min(ContextLength(combined), max_context_size)
            /\ IsSuffixOf(context, combined)
            /\ context[Len(context)] = new_context]_vars

\* the fold of the fifth chunk has returned: the first chunk's entry was
\* dropped, the second chunk's entry is cut, the new entry is whole
FoldKeepsSuffixWitness ==
    /\ deep_pc = "loop"
    /\ deep_run.i = 5
    /\ Len(deep_run.accumulated_context) = 4
    /\ ~deep_run.accumulated_context[1].whole
    /\ deep_run.accumulated_context[4].whole
    /\ deep_run.accumulated_context[4].chunk_number = 5
    /\ ContextLength(deep_run.accumulated_context) = max_context_size

\* C28: while a job is at rest (completed, failed, partial or paused) none of
\* its chunk rows is in status processing, on the error paths as well.
NoProcessingRowAtRest ==
    /\ analysis.status \in {"completed", "failed", "partial", "paused"} =>
          \A p \in DOMAIN chunk_rows : chunk_rows[p].status # "processing"
    /\ deep_job.status \in {"completed", "failed", "partial", "paused"} =>
          \A p \in DOMAIN deep_rows : deep_rows[p].status # "processing"

\* C29: every accepted resume_analysis request is eventually followed by the
\* analysis leaving status processing, whether or not the task queue is
\* available (every LLM call returns: LiveSpec's fairness)
ResumeAccepted ==
    /\ observed.resume \in {"kept_failed", "reset_failed"}
    /\ analysis.status = "processing"

ResumedAnalysisComesToRest ==
    ResumeAccepted ~> (analysis.status \in {"completed", "failed", "partial", "paused"})

\* C30: at most one processing run is ever active for an analysis: of two
\* resume_analysis requests for the same paused, partial or failed analysis at
\* most one is accepted and enqueues a run, under any interleaving
RunsQueuedOrActive ==
    Len(queue) + (IF pc \in {"idle", "raised"} THEN 0 ELSE 1)

AtMostOneRun == RunsQueuedOrActive <= 1

====
